---- MODULE Spec2Model ----
(***************************************************************************)
(* b2-client, src/account.rs: the validated request builders, the Duration *)
(* wire adapter, the B2Result envelope and the account operations.         *)
(*                                                                         *)
(* Representation notes.                                                   *)
(*  - Option<T> is a sequence of length 0 (None) or 1 (Some).              *)
(*  - Result<T, ValidationError> is a record [ok, val, msg].               *)
(*  - chrono::Duration is the pair [secs, nanos] chrono stores, compared   *)
(*    lexicographically as its derived Ord does.                           *)
(*  - A String is a sequence of runs [ch, n]: n copies of the char ch.     *)
(*  - An i64 count of milliseconds m is the pair [hi, lo] with             *)
(*    m = hi * 1000 + lo and 0 <= lo < 1000 (86,400,000,000 ms does not    *)
(*    fit TLC's 32-bit integers).                                        *)
(***************************************************************************)
EXTENDS Integers, Sequences, FiniteSets, TLC

VARIABLES
    kb,      \* the live CreateKeyRequestBuilder the caller holds (Option)
    kcall,   \* the last call made on the key-creation builder API
    db,      \* the live DownloadAuthorizationRequestBuilder (Option)
    dcall,   \* the last call made on the download-authorization builder API
    dser,    \* the Duration serializer/deserializer round trip in progress
    auth,    \* the Authorization session the caller holds (Option)
    call,    \* the account operation in progress (Option)
    net,     \* the requests handed to the transport, in order
    ret      \* the result the last account operation returned (Option)

vars == <<kb, kcall, db, dcall, dser, auth, call, net, ret>>
keyVars == <<kb, kcall>>
dlVars == <<db, dcall>>
opVars == <<auth, call, net, ret>>

None == <<>>
Some(x) == <<x>>
IsSome(o) == Len(o) = 1
IsNone(o) == Len(o) = 0
Unwrap(o) == o[1]

Ok(v) == [ok |-> TRUE, val |-> <<v>>, msg |-> ""]
Err(m) == [ok |-> FALSE, val |-> <<>>, msg |-> m]

\* ---------------------------------------------------------------- bounds
MaxCaps == 2
MaxRuns == 2
MaxDefects == 1

\* ------------------------------------------------------------ Capability
Capability ==
    { "ListKeys", "WriteKeys", "DeleteKeys", "ListAllBucketNames",
      "ListBuckets", "ReadBuckets", "WriteBuckets", "DeleteBuckets",
      "ReadBucketRetentions", "WriteBucketRetentions",
      "ReadBucketEncryption", "WriteBucketEncryption",
      "ListFiles", "ReadFiles", "ShareFiles", "WriteFiles", "DeleteFiles",
      "ReadFileLegalHolds", "WriteFileLegalHolds",
      "ReadFileRetentions", "WriteFileRetentions", "BypassGovernance" }

\* ------------------------------------------------------- chrono::Duration
NanosPerSec == 1000000000
NanosPerMilli == 1000000
MillisPerSec == 1000
SecsPerDay == 86400
SecsPerWeek == 604800

Dur(s, n) == [secs |-> s, nanos |-> n]
seconds(s) == Dur(s, 0)
days(d) == Dur(d * SecsPerDay, 0)
weeks(w) == Dur(w * SecsPerWeek, 0)

\* the derived Ord of chrono::Duration { secs, nanos }
DurLt(a, b) == a.secs < b.secs \/ (a.secs = b.secs /\ a.nanos < b.nanos)
DurGe(a, b) == ~DurLt(a, b)
DurGt(a, b) == DurLt(b, a)

\* ------------------------------------------------------------- String
Utf8Len(ch) ==
    CASE ch = "U+00E9" -> 2
      [] ch = "U+20AC" -> 3
      [] OTHER -> 1

is_alphanumeric(ch) == ch \in {"a", "7", "U+00E9"}

RECURSIVE StrLen(_)
StrLen(s) == IF s = <<>> THEN 0 ELSE Head(s).n * Utf8Len(Head(s).ch) + StrLen(Tail(s))

RECURSIVE CharCount(_)
CharCount(s) == IF s = <<>> THEN 0 ELSE Head(s).n + CharCount(Tail(s))

CharsOf(s) == { s[i].ch : i \in 1..Len(s) }

invalid_char(c) == ~(is_alphanumeric(c) \/ c = "-")

\* name.chars().find(invalid_char)
RECURSIVE FindInvalidChar(_)
FindInvalidChar(s) ==
    IF s = <<>> THEN None
    ELSE IF invalid_char(Head(s).ch) THEN Some(Head(s).ch)
    ELSE FindInvalidChar(Tail(s))

\* ----------------------------------------------- CreateKeyRequestBuilder
MaxNameLen == 100
ExpireDays == 1000

\* mutant: the name taken as it comes
CreateKeyRequestBuilder_new_unchecked(name) ==
    Ok([capabilities |-> None, name |-> name, valid_duration |-> None,
        bucket_id |-> None, name_prefix |-> None])

CreateKeyRequestBuilder_new(name) ==
    IF StrLen(name) > MaxNameLen
    THEN Err("Name must be no more than 100 characters.")
    ELSE IF IsSome(FindInvalidChar(name))
    THEN Err("Invalid character: " \o Unwrap(FindInvalidChar(name)))
    ELSE Ok([capabilities |-> None, name |-> name, valid_duration |-> None,
             bucket_id |-> None, name_prefix |-> None])

\* mutant: the is_empty() check left out
with_capabilities_unchecked(self, caps) ==
    Ok([self EXCEPT !.capabilities = Some(caps)])

with_capabilities(self, caps) ==
    IF caps = <<>>
    THEN Err("Key must have at least one capability.")
    ELSE Ok([self EXCEPT !.capabilities = Some(caps)])

\* mutant: the upper bound taken inclusive, as the doc comment words it
expires_after_inclusive(self, dur) ==
    IF DurGt(dur, days(ExpireDays))
    THEN Err("Expiration must be less than 1000 days")
    ELSE IF DurLt(dur, seconds(1))
    THEN Err("Expiration must be a positive number of seconds")
    ELSE Ok([self EXCEPT !.valid_duration = Some(dur)])

expires_after(self, dur) ==
    IF DurGe(dur, days(ExpireDays))
    THEN Err("Expiration must be less than 1000 days")
    ELSE IF DurLt(dur, seconds(1))
    THEN Err("Expiration must be a positive number of seconds")
    ELSE Ok([self EXCEPT !.valid_duration = Some(dur)])

limit_to_bucket(self, id) == Ok([self EXCEPT !.bucket_id = Some(id)])

with_name_prefix(self, prefix) == Ok([self EXCEPT !.name_prefix = Some(prefix)])

\* mutant: DeleteBuckets added to the arm that lets a capability through
BucketCapabilities_withDeleteBuckets ==
    Capability \ {"ListKeys", "WriteKeys", "DeleteKeys", "WriteBuckets"}

\* the capabilities the match in build() lets through when bucket_id is set
BucketCapabilities ==
    { "ListAllBucketNames", "ListBuckets", "ReadBuckets",
      "ReadBucketEncryption", "WriteBucketEncryption",
      "ReadBucketRetentions", "WriteBucketRetentions",
      "ListFiles", "ReadFiles", "ShareFiles", "WriteFiles", "DeleteFiles",
      "ReadFileLegalHolds", "WriteFileLegalHolds",
      "ReadFileRetentions", "WriteFileRetentions", "BypassGovernance" }

\* mutant: the loop keeps going and reports the last capability that falls to
\* the catch-all arm
RECURSIVE FirstInvalidCapability_last(_)
FirstInvalidCapability_last(caps) ==
    IF caps = <<>> THEN None
    ELSE IF IsSome(FirstInvalidCapability_last(Tail(caps)))
    THEN FirstInvalidCapability_last(Tail(caps))
    ELSE IF Head(caps) \notin Capability \ {"ListKeys", "WriteKeys", "DeleteKeys",
                                            "WriteBuckets", "DeleteBuckets"}
    THEN Some(Head(caps))
    ELSE None

\* the for loop of build(): the first capability, in list order, that falls
\* to the catch-all arm
RECURSIVE FirstInvalidCapability(_)
FirstInvalidCapability(caps) ==
    IF caps = <<>> THEN None
    ELSE IF Head(caps) \notin BucketCapabilities THEN Some(Head(caps))
    ELSE FirstInvalidCapability(Tail(caps))

CreateKeyRequest(self) ==
    [account_id |-> None,
     capabilities |-> Unwrap(self.capabilities),
     key_name |-> self.name,
     valid_duration_in_seconds |-> self.valid_duration,
     bucket_id |-> self.bucket_id,
     name_prefix |-> self.name_prefix]

\* mutant: the else-if branch on name_prefix left out
CreateKeyRequestBuilder_build_noPrefixCheck(self) ==
    IF IsNone(self.capabilities)
    THEN Err("A list of capabilities for the key is required.")
    ELSE IF IsSome(self.bucket_id)
            /\ IsSome(FirstInvalidCapability(Unwrap(self.capabilities)))
    THEN Err("Invalid capability when bucket_id is set: "
             \o Unwrap(FirstInvalidCapability(Unwrap(self.capabilities))))
    ELSE Ok(CreateKeyRequest(self))

\* mutant: the name_prefix check made before the capabilities are looked at
CreateKeyRequestBuilder_build_prefixFirst(self) ==
    IF IsNone(self.bucket_id) /\ IsSome(self.name_prefix)
    THEN Err("bucket_id must be set when name_prefix is given")
    ELSE IF IsNone(self.capabilities)
    THEN Err("A list of capabilities for the key is required.")
    ELSE IF IsSome(self.bucket_id)
            /\ IsSome(FirstInvalidCapability(Unwrap(self.capabilities)))
    THEN Err("Invalid capability when bucket_id is set: "
             \o Unwrap(FirstInvalidCapability(Unwrap(self.capabilities))))
    ELSE Ok(CreateKeyRequest(self))

CreateKeyRequestBuilder_build(self) ==
    IF IsNone(self.capabilities)
    THEN Err("A list of capabilities for the key is required.")
    ELSE IF IsSome(self.bucket_id)
    THEN IF IsSome(FirstInvalidCapability(Unwrap(self.capabilities)))
         THEN Err("Invalid capability when bucket_id is set: "
                  \o Unwrap(FirstInvalidCapability(Unwrap(self.capabilities))))
         ELSE Ok(CreateKeyRequest(self))
    ELSE IF IsSome(self.name_prefix)
    THEN Err("bucket_id must be set when name_prefix is given")
    ELSE Ok(CreateKeyRequest(self))

\* ----------------------------------- DownloadAuthorizationRequestBuilder
DownloadAuthorizationRequestBuilder_new ==
    [bucket_id |-> None, file_name_prefix |-> None,
     valid_duration_in_seconds |-> None,
     b2_content_disposition |-> None, b2_content_language |-> None,
     b2_expires |-> None, b2_cache_control |-> None,
     b2_content_encoding |-> None, b2_content_type |-> None]

for_bucket_id(self, id) == [self EXCEPT !.bucket_id = Some(id)]

with_file_name_prefix(self, name) == [self EXCEPT !.file_name_prefix = Some(name)]

\* mutant: one week itself turned down
with_duration_exclusive(self, dur) ==
    IF DurLt(dur, seconds(1)) \/ DurGe(dur, weeks(1))
    THEN Err("Duration must be between 1 and 604,800 seconds, inclusive")
    ELSE Ok([self EXCEPT !.valid_duration_in_seconds = Some(dur)])

with_duration(self, dur) ==
    IF DurLt(dur, seconds(1)) \/ DurGt(dur, weeks(1))
    THEN Err("Duration must be between 1 and 604,800 seconds, inclusive")
    ELSE Ok([self EXCEPT !.valid_duration_in_seconds = Some(dur)])

\* A typed header value is the record [type, text], text being the string
\* its to_string()/Display yields; ContentDisposition(String) is a newtype.
with_content_disposition(self, disposition) ==
    [self EXCEPT !.b2_content_disposition = Some(disposition.text)]

with_content_language(self, lang) ==
    [self EXCEPT !.b2_content_language = Some(lang)]

with_expiration(self, expiration) ==
    [self EXCEPT !.b2_expires = Some(expiration.text)]

with_cache_control(self, directive) ==
    [self EXCEPT !.b2_cache_control = Some(directive.text)]

with_content_encoding(self, encoding) ==
    [self EXCEPT !.b2_content_encoding = Some(encoding.text)]

with_content_type(self, content_type) ==
    [self EXCEPT !.b2_content_type = Some(content_type.text)]

DownloadAuthorizationRequest(self) ==
    [bucket_id |-> Unwrap(self.bucket_id),
     file_name_prefix |-> Unwrap(self.file_name_prefix),
     valid_duration_in_seconds |-> Unwrap(self.valid_duration_in_seconds),
     b2_content_disposition |-> self.b2_content_disposition,
     b2_content_language |-> self.b2_content_language,
     b2_expires |-> self.b2_expires,
     b2_cache_control |-> self.b2_cache_control,
     b2_content_encoding |-> self.b2_content_encoding,
     b2_content_type |-> self.b2_content_type]

\* mutant: the file-name prefix looked at before the bucket id
DownloadAuthorizationRequestBuilder_build_prefixFirst(self) ==
    IF IsNone(self.file_name_prefix)
    THEN Err("A filename prefix must be provided")
    ELSE IF IsNone(self.bucket_id)
    THEN Err("A bucket ID must be provided")
    ELSE IF IsNone(self.valid_duration_in_seconds)
    THEN Err("The duration of the authorization token must be set")
    ELSE Ok(DownloadAuthorizationRequest(self))

DownloadAuthorizationRequestBuilder_build(self) ==
    IF IsNone(self.bucket_id)
    THEN Err("A bucket ID must be provided")
    ELSE IF IsNone(self.file_name_prefix)
    THEN Err("A filename prefix must be provided")
    ELSE IF IsNone(self.valid_duration_in_seconds)
    THEN Err("The duration of the authorization token must be set")
    ELSE Ok(DownloadAuthorizationRequest(self))

\* ------------------------------------------------------ serde_json::Value
\* [t, b, n, s, a, o]: the type, and the value in the field of its type (i64
\* numbers are the pair [hi, lo] of num_milliseconds, small ones have hi = 0)
JNull == [t |-> "null", b |-> FALSE, n |-> [hi |-> 0, lo |-> 0], s |-> "", a |-> <<>>, o |-> <<>>]
JBool(x) == [JNull EXCEPT !.t = "bool", !.b = x]
JNum(x) == [JNull EXCEPT !.t = "number", !.n = x]
JStr(x) == [JNull EXCEPT !.t = "string", !.s = x]
JArr(x) == [JNull EXCEPT !.t = "array", !.a = x]
JObj(x) == [JNull EXCEPT !.t = "object", !.o = x]
JInt(x) == JNum([hi |-> x \div 1000, lo |-> x % 1000])

\* #[serde(rename_all = "camelCase")] on Capability
CapabilityWire ==
    [c \in Capability |->
       CASE c = "ListKeys" -> "listKeys"
         [] c = "WriteKeys" -> "writeKeys"
         [] c = "DeleteKeys" -> "deleteKeys"
         [] c = "ListAllBucketNames" -> "listAllBucketNames"
         [] c = "ListBuckets" -> "listBuckets"
         [] c = "ReadBuckets" -> "readBuckets"
         [] c = "WriteBuckets" -> "writeBuckets"
         [] c = "DeleteBuckets" -> "deleteBuckets"
         [] c = "ReadBucketRetentions" -> "readBucketRetentions"
         [] c = "WriteBucketRetentions" -> "writeBucketRetentions"
         [] c = "ReadBucketEncryption" -> "readBucketEncryption"
         [] c = "WriteBucketEncryption" -> "writeBucketEncryption"
         [] c = "ListFiles" -> "listFiles"
         [] c = "ReadFiles" -> "readFiles"
         [] c = "ShareFiles" -> "shareFiles"
         [] c = "WriteFiles" -> "writeFiles"
         [] c = "DeleteFiles" -> "deleteFiles"
         [] c = "ReadFileLegalHolds" -> "readFileLegalHolds"
         [] c = "WriteFileLegalHolds" -> "writeFileLegalHolds"
         [] c = "ReadFileRetentions" -> "readFileRetentions"
         [] c = "WriteFileRetentions" -> "writeFileRetentions"
         [] c = "BypassGovernance" -> "bypassGovernance"]

CapabilityOfWire(w) == CHOOSE c \in Capability : CapabilityWire[c] = w
IsCapabilityWire(w) == \E c \in Capability : CapabilityWire[c] = w

\* A struct that derives Deserialize is the sequence of its fields in
\* declaration order: [rust, json, kind, opt], opt for Option<..>.
Field(rust, json, kind, opt) == [rust |-> rust, json |-> json, kind |-> kind, opt |-> opt]

Capabilities ==
    << Field("capabilities", "capabilities", "Vec<Capability>", FALSE),
       Field("bucket_id", "bucketId", "String", TRUE),
       Field("bucket_name", "bucketName", "String", TRUE),
       Field("name_prefix", "namePrefix", "String", TRUE) >>

ProtoAuthorization ==
    << Field("account_id", "accountId", "String", FALSE),
       Field("authorization_token", "authorizationToken", "String", FALSE),
       Field("allowed", "allowed", "Capabilities", FALSE),
       Field("api_url", "apiUrl", "String", FALSE),
       Field("download_url", "downloadUrl", "String", FALSE),
       Field("recommended_part_size", "recommendedPartSize", "u64", FALSE),
       Field("absolute_minimum_part_size", "absoluteMinimumPartSize", "u64", FALSE),
       Field("s3_api_url", "s3ApiUrl", "String", FALSE) >>

Key ==
    << Field("key_name", "keyName", "String", FALSE),
       Field("application_key_id", "applicationKeyId", "String", FALSE),
       Field("capabilities", "capabilities", "Vec<Capability>", FALSE),
       Field("account_id", "accountId", "String", FALSE),
       Field("expiration_timestamp", "expirationTimestamp", "DateTime<Local>", TRUE),
       Field("bucket_id", "bucketId", "String", TRUE),
       Field("name_prefix", "namePrefix", "String", TRUE),
       Field("options", "options", "Vec<String>", TRUE) >>

NewlyCreatedKey ==
    <<Field("application_key", "applicationKey", "String", FALSE)>> \o Key

DownloadAuthorization ==
    << Field("bucket_id", "bucketId", "String", FALSE),
       Field("file_name_prefix", "fileNamePrefix", "String", FALSE),
       Field("authorization_token", "authorizationToken", "String", FALSE) >>

\* crate::error::B2Error, the error envelope {code, status, message}
B2Error ==
    << Field("code", "code", "String", FALSE),
       Field("status", "status", "u64", FALSE),
       Field("message", "message", "String", FALSE) >>

Timestamps == {"2021-10-03T00:00:00Z"}

\* what a field type other than a nested struct accepts
AcceptsLeaf(kind, j) ==
    CASE kind = "String" -> j.t = "string"
      [] kind = "u64" -> j.t = "number" /\ j.n.hi >= 0
      [] kind = "DateTime<Local>" -> j.t = "string" /\ j.s \in Timestamps
      [] kind = "Vec<String>" ->
           j.t = "array" /\ \A i \in 1..Len(j.a) : j.a[i].t = "string"
      [] kind = "Vec<Capability>" ->
           /\ j.t = "array"
           /\ \A i \in 1..Len(j.a) : j.a[i].t = "string" /\ IsCapabilityWire(j.a[i].s)
      [] OTHER -> FALSE

LeafOf(kind, j) ==
    CASE kind = "Vec<String>" -> [i \in 1..Len(j.a) |-> j.a[i].s]
      [] kind = "Vec<Capability>" -> [i \in 1..Len(j.a) |-> CapabilityOfWire(j.a[i].s)]
      [] kind = "u64" -> j.n
      [] OTHER -> j.s

JsonNames(shape) == { shape[i].json : i \in 1..Len(shape) }

\* the element of a JSON object or array that field i of the struct reads:
\* by name in a map (unknown keys are ignored, a missing key reads as absent),
\* by position in a sequence
Present(j, shape, i) ==
    IF j.t = "object" THEN shape[i].json \in DOMAIN j.o ELSE i <= Len(j.a)
Element(j, shape, i) ==
    IF j.t = "object" THEN j.o[shape[i].json] ELSE j.a[i]

\* a struct of leaf fields
FitsLeafStruct(shape, j) ==
    /\ j.t \in {"object", "array"}
    /\ j.t = "array" => Len(j.a) = Len(shape)
    /\ \A i \in 1..Len(shape) :
         IF Present(j, shape, i)
         THEN \/ shape[i].opt /\ Element(j, shape, i).t = "null"
              \/ AcceptsLeaf(shape[i].kind, Element(j, shape, i))
         ELSE shape[i].opt

LeafStructOf(shape, j) ==
    [ r \in { shape[i].rust : i \in 1..Len(shape) } |->
        LET i == CHOOSE k \in 1..Len(shape) : shape[k].rust = r
        IN  IF shape[i].opt
            THEN IF Present(j, shape, i) /\ Element(j, shape, i).t # "null"
                 THEN Some(LeafOf(shape[i].kind, Element(j, shape, i)))
                 ELSE None
            ELSE LeafOf(shape[i].kind, Element(j, shape, i)) ]

Accepts(kind, j) ==
    IF kind = "Capabilities" THEN FitsLeafStruct(Capabilities, j)
    ELSE AcceptsLeaf(kind, j)

ValueOf(kind, j) ==
    IF kind = "Capabilities" THEN LeafStructOf(Capabilities, j)
    ELSE LeafOf(kind, j)

\* T::deserialize succeeds on the value
Fits(shape, j) ==
    /\ j.t \in {"object", "array"}
    /\ j.t = "array" => Len(j.a) = Len(shape)
    /\ \A i \in 1..Len(shape) :
         IF Present(j, shape, i)
         THEN \/ shape[i].opt /\ Element(j, shape, i).t = "null"
              \/ Accepts(shape[i].kind, Element(j, shape, i))
         ELSE shape[i].opt

\* the value T::deserialize yields, a record over the struct's field names
StructOf(shape, j) ==
    [ r \in { shape[i].rust : i \in 1..Len(shape) } |->
        LET i == CHOOSE k \in 1..Len(shape) : shape[k].rust = r
        IN  IF shape[i].opt
            THEN IF Present(j, shape, i) /\ Element(j, shape, i).t # "null"
                 THEN Some(ValueOf(shape[i].kind, Element(j, shape, i)))
                 ELSE None
            ELSE ValueOf(shape[i].kind, Element(j, shape, i)) ]

\* mutant: the Err variant declared, and so tried, first
B2Result_errFirst(T, j) ==
    IF Fits(B2Error, j) THEN [variant |-> "Err", val |-> Some(StructOf(B2Error, j))]
    ELSE IF Fits(T, j) THEN [variant |-> "Ok", val |-> Some(StructOf(T, j))]
    ELSE [variant |-> "none", val |-> None]

\* #[serde(untagged)] enum B2Result<T> { Ok(T), Err(B2Error) }: the variants
\* are tried in declaration order, and the value that fits neither is an error
B2Result(T, j) ==
    IF Fits(T, j) THEN [variant |-> "Ok", val |-> Some(StructOf(T, j))]
    ELSE IF Fits(B2Error, j) THEN [variant |-> "Err", val |-> Some(StructOf(B2Error, j))]
    ELSE [variant |-> "none", val |-> None]

\* ---------------------------------------------- Duration (wire adapter)
\* Rust's / on i32: the quotient truncated toward zero
TruncDiv(a, b) == IF a >= 0 THEN a \div b ELSE -((-a) \div b)

\* chrono::Duration::num_milliseconds, as the pair [hi, lo] that stands for
\* hi * 1000 + lo
num_milliseconds(d) ==
    LET neg == d.secs < 0 /\ d.nanos > 0
        num_seconds == IF neg THEN d.secs + 1 ELSE d.secs
        nanos_mod_sec == IF neg THEN d.nanos - NanosPerSec ELSE d.nanos
        nanos_part == TruncDiv(nanos_mod_sec, NanosPerMilli)
    IN  IF nanos_part >= 0
        THEN [hi |-> num_seconds, lo |-> nanos_part]
        ELSE [hi |-> num_seconds - 1, lo |-> MillisPerSec + nanos_part]

\* chrono::Duration::milliseconds
milliseconds(i) == Dur(i.hi, i.lo * NanosPerMilli)

\* serializer.serialize_i64(..) into a serde_json::Value: a Number, stored as
\* PosInt when the i64 is not negative and as NegInt when it is
Duration_serialize(d) ==
    LET i == num_milliseconds(d)
    IN  [number |-> IF i.hi < 0 THEN "NegInt" ELSE "PosInt", i |-> i]

\* DurationVisitor: visit_i64 is the one method it defines; every other visit
\* method is the trait's default, which rejects the value as an invalid type
DurationVisitor(method, i) ==
    IF method = "visit_i64"
    THEN Ok(i)
    ELSE Err("invalid type: integer, expected the number of milliseconds representing the duration")

\* deserializer.deserialize_i64(DurationVisitor).map(..): serde_json hands a
\* PosInt to visit_u64 and a NegInt to visit_i64
Duration_deserialize(json) ==
    LET visited == DurationVisitor(IF json.number = "PosInt" THEN "visit_u64"
                                   ELSE "visit_i64", json.i)
    IN  IF visited.ok THEN Ok(milliseconds(Unwrap(visited.val))) ELSE visited

\* ---------------------------------------------------------- Authorization
B2_AUTH_URL == "https://api.backblazeb2.com/b2api/v2/"

\* mutant: the general builder reading the download base
api_url_downloadBase(self, endpoint) == self.download_url \o "/b2api/v2/" \o endpoint

api_url(self, endpoint) == self.api_url \o "/b2api/v2/" \o endpoint
download_url(self, endpoint) == self.download_url \o "/b2api/v2/" \o endpoint
s3_api_url(self, endpoint) == self.s3_api_url \o "/b2api/v2/" \o endpoint

\* mutant: the general and the download base taken from each other's field
create_authorization_swapped(self, c) ==
    [client |-> c,
     account_id |-> self.account_id,
     authorization_token |-> self.authorization_token,
     allowed |-> self.allowed,
     api_url |-> self.download_url,
     download_url |-> self.api_url,
     recommended_part_size |-> self.recommended_part_size,
     absolute_minimum_part_size |-> self.absolute_minimum_part_size,
     s3_api_url |-> self.s3_api_url]

\* ProtoAuthorization::create_authorization; the session owns the client
create_authorization(self, c) ==
    [client |-> c,
     account_id |-> self.account_id,
     authorization_token |-> self.authorization_token,
     allowed |-> self.allowed,
     api_url |-> self.api_url,
     download_url |-> self.download_url,
     recommended_part_size |-> self.recommended_part_size,
     absolute_minimum_part_size |-> self.absolute_minimum_part_size,
     s3_api_url |-> self.s3_api_url]

\* mutant: the secret kept as a field of the returned Key
create_public_key_keepsSecret(self) == <<self.application_key, self>>

\* NewlyCreatedKey::create_public_key
create_public_key(self) ==
    << self.application_key,
       [key_name |-> self.key_name,
        application_key_id |-> self.application_key_id,
        capabilities |-> self.capabilities,
        account_id |-> self.account_id,
        expiration_timestamp |-> self.expiration_timestamp,
        bucket_id |-> self.bucket_id,
        name_prefix |-> self.name_prefix,
        options |-> self.options] >>

\* base64::encode, kept symbolic
base64(bytes) == [base64 |-> bytes]

\* Option<T> and the field types of the request structs, serialized
OptionJson(o, j) == IF IsSome(o) THEN j ELSE JNull
DurationJson(d) == JNum(Duration_serialize(d).i)

\* serde_json::to_value(CreateKeyRequest)
CreateKeyRequest_to_value(r) ==
    JObj([accountId |-> OptionJson(r.account_id, JStr(r.account_id[1])),
          capabilities |-> JArr([i \in 1..Len(r.capabilities) |->
                                   JStr(CapabilityWire[r.capabilities[i]])]),
          keyName |-> JStr(r.key_name),
          validDurationInSeconds |->
              OptionJson(r.valid_duration_in_seconds,
                         DurationJson(r.valid_duration_in_seconds[1])),
          bucketId |-> OptionJson(r.bucket_id, JStr(r.bucket_id[1])),
          namePrefix |-> OptionJson(r.name_prefix, JStr(r.name_prefix[1]))])

\* serde_json::to_value(DownloadAuthorizationRequest)
DownloadAuthorizationRequest_to_value(r) ==
    JObj([bucketId |-> JStr(r.bucket_id),
          fileNamePrefix |-> JStr(r.file_name_prefix),
          validDurationInSeconds |-> DurationJson(r.valid_duration_in_seconds),
          b2ContentDisposition |->
              OptionJson(r.b2_content_disposition, JStr(r.b2_content_disposition[1])),
          b2ContentLanguage |->
              OptionJson(r.b2_content_language, JStr(r.b2_content_language[1])),
          b2Expires |-> OptionJson(r.b2_expires, JStr(r.b2_expires[1])),
          b2CacheControl |->
              OptionJson(r.b2_cache_control, JStr(r.b2_cache_control[1])),
          b2ContentEncoding |->
              OptionJson(r.b2_content_encoding, JStr(r.b2_content_encoding[1])),
          b2ContentType |->
              OptionJson(r.b2_content_type, JStr(r.b2_content_type[1]))])

HttpRequest(method, url, authorization, body) ==
    [method |-> method, url |-> url,
     headers |-> <<<<"Authorization", authorization>>>>, body |-> body]

\* what an operation returns: Ok(value), Err(Error::B2(e)), the error the ?
\* after serde_json::from_value converts to, or the transport's own error
ResultOk(v) == [kind |-> "Ok", val |-> Some(v)]
ResultB2(e) == [kind |-> "Error::B2", val |-> Some(e)]
ResultDecode == [kind |-> "decode", val |-> None]
ResultTransport(e) == [kind |-> "transport", val |-> Some(e)]

\* let x: B2Result<T> = serde_json::from_value(res)?; match x { .. }, the
\* Ok arm still holding the decoded T
Decoded(T, res) ==
    LET x == B2Result(T, res)
    IN  CASE x.variant = "Ok" -> ResultOk(Unwrap(x.val))
          [] x.variant = "Err" -> ResultB2(Unwrap(x.val))
          [] OTHER -> ResultDecode

\* ------------------------------------------------------ inputs (key builder)
Str(ch, n) == <<[ch |-> ch, n |-> n]>>

Chars == {"a", "7", "-", "_", "U+00E9", "U+20AC"}
RunLens == {1, 50, 51, 100, 101}
Runs == [ch : Chars, n : RunLens]
SeqsUpTo(S, k) == UNION { [1..n -> S] : n \in 0..k }

\* every string of at most MaxRuns runs
Names == SeqsUpTo(Runs, MaxRuns)

\* the names the builder chain is started with
KeyNames == { Str("a", 1) \o Str("-", 1) \o Str("7", 1),
              Str("a", 101), Str("a", 1) \o Str("_", 1) }

\* every list of at most two capabilities, and every list of at most MaxCaps
\* capabilities over CapSample
CapSample == {"ReadFiles", "ListAllBucketNames", "WriteKeys", "DeleteBuckets"}
CapLists == SeqsUpTo(Capability, 2) \cup SeqsUpTo(CapSample, MaxCaps)

KeyDurations ==
    { Dur(-1, 0), Dur(0, 0), Dur(0, 1), Dur(0, 500000000), Dur(0, 999999999),
      seconds(1),
      Dur(ExpireDays * SecsPerDay - 1, 999999999),
      days(ExpireDays), Dur(ExpireDays * SecsPerDay, 1),
      days(ExpireDays + 1) }

BucketIds == {"bucket-1", "bucket-2"}
Prefixes == {"files/"}

NoCall == [op |-> "none", arg |-> None, self |-> None, res |-> Err("")]

\* a call that returns Result<Self, ValidationError>: the builder moves into
\* the call and comes back only inside Ok
Returned(op, arg, res) ==
    /\ kb' = res.val
    /\ kcall' = [op |-> op, arg |-> Some(arg), self |-> None, res |-> res]

\* ----------------------------------------------------- actions (key builder)
KeyInit == kb = None /\ kcall = NoCall

NewCall(name) ==
    /\ IsNone(kb)
    /\ Returned("new", name, CreateKeyRequestBuilder_new(name))
    /\ UNCHANGED <<dlVars, dser, opVars>>

New == \E name \in KeyNames : NewCall(name)

\* new(name) on the name drawn by NameInit
NewNamed ==
    /\ kcall.op = "name"
    /\ NewCall(Unwrap(kcall.arg))

WithCapabilities ==
    /\ IsSome(kb)
    /\ \E caps \in CapLists :
         Returned("with_capabilities", caps, with_capabilities(Unwrap(kb), caps))
    /\ UNCHANGED <<dlVars, dser, opVars>>

ExpiresAfter ==
    /\ IsSome(kb)
    /\ \E dur \in KeyDurations :
         Returned("expires_after", dur, expires_after(Unwrap(kb), dur))
    /\ UNCHANGED <<dlVars, dser, opVars>>

LimitToBucket ==
    /\ IsSome(kb)
    /\ \E id \in BucketIds :
         Returned("limit_to_bucket", id, limit_to_bucket(Unwrap(kb), id))
    /\ UNCHANGED <<dlVars, dser, opVars>>

WithNamePrefix ==
    /\ IsSome(kb)
    /\ \E prefix \in Prefixes :
         Returned("with_name_prefix", prefix, with_name_prefix(Unwrap(kb), prefix))
    /\ UNCHANGED <<dlVars, dser, opVars>>

\* build(self) consumes the builder whatever it returns
Build ==
    /\ IsSome(kb)
    /\ kb' = None
    /\ kcall' = [op |-> "build", arg |-> None, self |-> kb,
                 res |-> CreateKeyRequestBuilder_build(Unwrap(kb))]
    /\ UNCHANGED <<dlVars, dser, opVars>>

KeyNext ==
    \/ New
    \/ WithCapabilities
    \/ ExpiresAfter
    \/ LimitToBucket
    \/ WithNamePrefix
    \/ Build

\* ------------------------------------------- inputs (download builder)
DlDurations ==
    { Dur(-1, 0), Dur(0, 0), Dur(0, 999999999), seconds(1), seconds(30),
      weeks(1), Dur(SecsPerWeek, 1), Dur(SecsPerWeek + 1, 0) }

Dispositions == {[type |-> "ContentDisposition",
                  text |-> "Attachment; filename=example.html"]}
Languages == {"en-US"}
Expirations == {[type |-> "Expires", text |-> "Wed, 21 Oct 2015 07:28:00 GMT"]}
CacheDirectives == {[type |-> "CacheDirective", text |-> "must-revalidate"]}
ContentEncodings == {[type |-> "ContentEncoding", text |-> "gzip"]}
Mimes == {[type |-> "Mime", text |-> "text/html"]}

\* a setter that returns Self
DlReturnedSelf(op, arg, b) ==
    /\ db' = Some(b)
    /\ dcall' = [op |-> op, arg |-> Some(arg), self |-> None, res |-> Ok(b)]
    /\ UNCHANGED <<keyVars, dser, opVars>>

\* --------------------------------------------- actions (download builder)
DlNew ==
    /\ IsNone(db)
    /\ db' = Some(DownloadAuthorizationRequestBuilder_new)
    /\ dcall' = [op |-> "new", arg |-> None, self |-> None,
                 res |-> Ok(DownloadAuthorizationRequestBuilder_new)]
    /\ UNCHANGED <<keyVars, dser, opVars>>

ForBucketId ==
    /\ IsSome(db)
    /\ \E id \in BucketIds :
         DlReturnedSelf("for_bucket_id", id, for_bucket_id(Unwrap(db), id))

WithFileNamePrefix ==
    /\ IsSome(db)
    /\ \E name \in Prefixes :
         DlReturnedSelf("with_file_name_prefix", name,
                        with_file_name_prefix(Unwrap(db), name))

\* with_duration returns Result<Self, ValidationError>
WithDuration ==
    /\ IsSome(db)
    /\ \E dur \in DlDurations :
         /\ db' = with_duration(Unwrap(db), dur).val
         /\ dcall' = [op |-> "with_duration", arg |-> Some(dur), self |-> None,
                      res |-> with_duration(Unwrap(db), dur)]
    /\ UNCHANGED <<keyVars, dser, opVars>>

WithContentDisposition ==
    /\ IsSome(db)
    /\ \E d \in Dispositions :
         DlReturnedSelf("with_content_disposition", d,
                        with_content_disposition(Unwrap(db), d))

WithContentLanguage ==
    /\ IsSome(db)
    /\ \E l \in Languages :
         DlReturnedSelf("with_content_language", l,
                        with_content_language(Unwrap(db), l))

WithExpiration ==
    /\ IsSome(db)
    /\ \E e \in Expirations :
         DlReturnedSelf("with_expiration", e, with_expiration(Unwrap(db), e))

WithCacheControl ==
    /\ IsSome(db)
    /\ \E c \in CacheDirectives :
         DlReturnedSelf("with_cache_control", c, with_cache_control(Unwrap(db), c))

WithContentEncoding ==
    /\ IsSome(db)
    /\ \E e \in ContentEncodings :
         DlReturnedSelf("with_content_encoding", e,
                        with_content_encoding(Unwrap(db), e))

WithContentType ==
    /\ IsSome(db)
    /\ \E m \in Mimes :
         DlReturnedSelf("with_content_type", m, with_content_type(Unwrap(db), m))

DlBuild ==
    /\ IsSome(db)
    /\ db' = None
    /\ dcall' = [op |-> "build", arg |-> None, self |-> db,
                 res |-> DownloadAuthorizationRequestBuilder_build(Unwrap(db))]
    /\ UNCHANGED <<keyVars, dser, opVars>>

DlNext ==
    \/ DlNew
    \/ ForBucketId
    \/ WithFileNamePrefix
    \/ WithDuration
    \/ WithContentDisposition
    \/ WithContentLanguage
    \/ WithExpiration
    \/ WithCacheControl
    \/ WithContentEncoding
    \/ WithContentType
    \/ DlBuild

\* ------------------------------------------------ Duration round trip
WireSecs == {-2, -1, 0, 1, 30, SecsPerWeek, ExpireDays * SecsPerDay - 1}
WireNanos == {0, 1, 1000000, 1500000, 500000000, 999000000, 999999999}
WireDurations == { Dur(sec, n) : sec \in WireSecs, n \in WireNanos }

DserInit == dser = None

\* the round trip starts from a Duration drawn from WireDurations
DserStart ==
    \E d \in WireDurations :
        dser = Some([pc |-> "start", dur |-> d, json |-> None, back |-> None])

Serialize ==
    /\ IsSome(dser)
    /\ Unwrap(dser).pc = "start"
    /\ dser' = Some([Unwrap(dser) EXCEPT
                       !.pc = "serialized",
                       !.json = Some(Duration_serialize(Unwrap(dser).dur))])
    /\ UNCHANGED <<keyVars, dlVars, opVars>>

Deserialize ==
    /\ IsSome(dser)
    /\ Unwrap(dser).pc = "serialized"
    /\ dser' = Some([Unwrap(dser) EXCEPT
                       !.pc = "done",
                       !.back = Some(Duration_deserialize(Unwrap(Unwrap(dser).json)))])
    /\ UNCHANGED <<keyVars, dlVars, opVars>>

DserNext ==
    \/ Serialize
    \/ Deserialize

\* ------------------------------------------------- inputs (operations)
Variants == {"1", "2"}
ErrorCodes == {"bad_auth_token", "unauthorized"}
Clients == {"client"}
AuthKeyIds == {"B2_KEY_ID", "wrong-id"}
AuthKeys == {"B2_AUTH_KEY", "wrong-key"}
DeleteKeyIds == {"002d2e6b27577ea0000000005"}

AllowedBody(x) ==
    JObj([capabilities |-> JArr(<<JStr("writeKeys"), JStr("shareFiles")>>),
          bucketId |-> JNull, bucketName |-> JNull, namePrefix |-> JNull])

AuthBody(x) ==
    [accountId |-> JStr("account-" \o x),
     authorizationToken |-> JStr("token-" \o x),
     allowed |-> AllowedBody(x),
     apiUrl |-> JStr("https://api" \o x),
     downloadUrl |-> JStr("https://f" \o x),
     recommendedPartSize |-> JInt(100000000),
     absoluteMinimumPartSize |-> JInt(5000000),
     s3ApiUrl |-> JStr("https://s3" \o x)]

KeyBody(x) ==
    [keyName |-> JStr("my-special-key"),
     applicationKeyId |-> JStr("key-id-" \o x),
     capabilities |-> JArr(<<JStr("listFiles"), JStr("readFiles")>>),
     accountId |-> JStr("account-" \o x),
     expirationTimestamp |-> JNull,
     bucketId |-> JStr("bucket-1"),
     namePrefix |-> JNull,
     options |-> JArr(<<JStr("s3")>>)]

NewKeyBody(x) == [applicationKey |-> JStr("secret-" \o x)] @@ KeyBody(x)

DownloadAuthBody(x) ==
    [bucketId |-> JStr("bucket-1"),
     fileNamePrefix |-> JStr("files/"),
     authorizationToken |-> JStr("download-token-" \o x)]

ErrorBody(code) ==
    [code |-> JStr(code), status |-> JInt(401), message |-> JStr("")]

\* the struct the operation decodes its response to
SuccessShape(op) ==
    CASE op = "authorize_account" -> ProtoAuthorization
      [] op = "create_key" -> NewlyCreatedKey
      [] op = "get_download_authorization" -> DownloadAuthorization
      [] OTHER -> Key

SuccessBody(op, x) ==
    CASE op = "authorize_account" -> AuthBody(x)
      [] op = "create_key" -> NewKeyBody(x)
      [] op = "get_download_authorization" -> DownloadAuthBody(x)
      [] OTHER -> KeyBody(x)

\* one field of an object removed, set to null or set to a value of a type no
\* field has
Defect(o, f, how) ==
    CASE how = "remove" -> [g \in DOMAIN o \ {f} |-> o[g]]
      [] how = "null" -> [g \in DOMAIN o \cup {f} |-> IF g = f THEN JNull ELSE o[g]]
      [] OTHER -> [g \in DOMAIN o \cup {f} |-> IF g = f THEN JBool(TRUE) ELSE o[g]]

RECURSIVE Defected(_, _, _)
Defected(S, fields, k) ==
    IF k = 0 THEN S
    ELSE S \cup Defected({ Defect(o, f, how) :
                             o \in S, f \in fields, how \in {"remove", "null", "bool"} },
                         fields, k - 1)

\* a success body of authorize_account whose apiUrl is the empty string
BaselessAuthBody == [AuthBody("1") EXCEPT !.apiUrl = JStr("")]

\* The JSON values the server may answer op with: a success body, an error
\* body, both merged or the empty object, each with at most MaxDefects
\* defects; the same bodies as arrays of their values; the body of a newly
\* created key, whatever the operation; for authorize_account the body with
\* an empty apiUrl; and scalars.
ObjectBodies(op) ==
    Defected({ SuccessBody(op, x) : x \in Variants }
               \cup { ErrorBody(c) : c \in ErrorCodes }
               \cup { SuccessBody(op, "1") @@ ErrorBody(c) : c \in ErrorCodes }
               \cup { [g \in {} |-> JNull] },
             JsonNames(SuccessShape(op)) \cup JsonNames(B2Error), MaxDefects)

ArrayOf(shape, o) == [i \in 1..Len(shape) |-> o[shape[i].json]]

Payloads(op) ==
    { JObj(o) : o \in ObjectBodies(op) }
      \cup { JArr(ArrayOf(SuccessShape(op), SuccessBody(op, x))) : x \in Variants }
      \cup { JArr(ArrayOf(B2Error, ErrorBody(c))) : c \in ErrorCodes }
      \cup { JObj(NewKeyBody(x)) : x \in Variants }
      \cup (IF op = "authorize_account" THEN {JObj(BaselessAuthBody)} ELSE {})
      \cup { JNull, JStr("Service Unavailable"), JInt(0), JArr(<<>>) }

TransportErrors == {"connection reset"}

\* requests that the builders yield
SampleKeyBuilder ==
    Unwrap(with_capabilities(
             Unwrap(CreateKeyRequestBuilder_new(Str("a", 1)).val),
             <<"ListFiles">>).val)
KeyRequests ==
    { Unwrap(CreateKeyRequestBuilder_build(b).val) :
        b \in { SampleKeyBuilder,
                Unwrap(expires_after(Unwrap(limit_to_bucket(SampleKeyBuilder, "bucket-1").val),
                                     seconds(1)).val) } }
DownloadRequests ==
    { Unwrap(DownloadAuthorizationRequestBuilder_build(
               Unwrap(with_duration(
                        with_file_name_prefix(
                          for_bucket_id(DownloadAuthorizationRequestBuilder_new, "bucket-1"),
                          "files/"),
                        seconds(30)).val)).val) }
SampleKeys == { create_public_key(StructOf(NewlyCreatedKey, JObj(NewKeyBody(x))))[2] :
                  x \in Variants }

\* ------------------------------------------------- actions (operations)
OpInit == auth = None /\ call = None /\ net = <<>> /\ ret = None

\* client.get(url) / client.post(url) return a Result that the operation
\* unwraps with expect("Invalid URL"): a URL with no scheme, which is what an
\* empty base gives, does not parse
UrlParses(url) ==
    url \notin { "/b2api/v2/" \o endpoint :
                   endpoint \in {"b2_create_key", "b2_delete_key",
                                 "b2_get_download_authorization"} }

\* the invocation unwound by the panic of expect("Invalid URL")
Panicked == [kind |-> "panic", val |-> Some("Invalid URL")]

\* the operation builds its one request, sends it and awaits the transport;
\* when the request cannot be built it panics before anything is sent
Sent(op, client, request) ==
    /\ IsNone(call)
    /\ IF UrlParses(request.url)
       THEN /\ call' = Some([op |-> op, pc |-> "awaiting", client |-> client,
                             res |-> None])
            /\ net' = <<request>>
            /\ ret' = None
       ELSE /\ call' = None
            /\ net' = <<>>
            /\ ret' = Some([op |-> op, res |-> [ok |-> FALSE, val |-> JNull],
                            result |-> Panicked])
    /\ UNCHANGED <<auth, keyVars, dlVars, dser>>

AuthorizeAccount ==
    \E client \in Clients, key_id \in AuthKeyIds, key \in AuthKeys :
        Sent("authorize_account", client,
             HttpRequest("GET", B2_AUTH_URL \o "b2_authorize_account",
                         <<"Basic ", base64(<<key_id, ":", key>>)>>, None))

\* mutant: the request sent as the builder yielded it, account_id never set
CreateKey_asBuilt ==
    /\ IsSome(auth)
    /\ \E new_key_info \in KeyRequests :
         Sent("create_key", Unwrap(auth).client,
              HttpRequest("POST", api_url(Unwrap(auth), "b2_create_key"),
                          Unwrap(auth).authorization_token,
                          Some(CreateKeyRequest_to_value(new_key_info))))

CreateKey ==
    /\ IsSome(auth)
    /\ \E new_key_info \in KeyRequests :
         Sent("create_key", Unwrap(auth).client,
              HttpRequest("POST", api_url(Unwrap(auth), "b2_create_key"),
                          Unwrap(auth).authorization_token,
                          Some(CreateKeyRequest_to_value(
                                 [new_key_info EXCEPT
                                    !.account_id = Some(Unwrap(auth).account_id)]))))

DeleteKeyById_send(op, key_id) ==
    Sent(op, Unwrap(auth).client,
         HttpRequest("POST", api_url(Unwrap(auth), "b2_delete_key"),
                     Unwrap(auth).authorization_token,
                     Some(JObj([applicationKeyId |-> JStr(key_id)]))))

DeleteKey ==
    /\ IsSome(auth)
    /\ \E key \in SampleKeys : DeleteKeyById_send("delete_key", key.application_key_id)

DeleteKeyById ==
    /\ IsSome(auth)
    /\ \E key_id \in DeleteKeyIds : DeleteKeyById_send("delete_key_by_id", key_id)

GetDownloadAuthorization ==
    /\ IsSome(auth)
    /\ \E download_req \in DownloadRequests :
         Sent("get_download_authorization", Unwrap(auth).client,
              HttpRequest("POST", api_url(Unwrap(auth), "b2_get_download_authorization"),
                          Unwrap(auth).authorization_token,
                          Some(DownloadAuthorizationRequest_to_value(download_req))))

ShapeOp(op) == IF op = "delete_key" THEN "delete_key_by_id" ELSE op

\* the transport resolves the exchange: a JSON value, or its own error
TransportResolves ==
    /\ IsSome(call)
    /\ Unwrap(call).pc = "awaiting"
    /\ \E r \in { [ok |-> TRUE, val |-> p] : p \in Payloads(ShapeOp(Unwrap(call).op)) }
                  \cup { [ok |-> FALSE, val |-> JStr(e)] : e \in TransportErrors } :
         call' = Some([Unwrap(call) EXCEPT !.pc = "resolved", !.res = Some(r)])
    /\ UNCHANGED <<auth, net, ret, keyVars, dlVars, dser>>

Resolved(ops) ==
    /\ IsSome(call)
    /\ Unwrap(call).pc = "resolved"
    /\ Unwrap(call).op \in ops

Response == Unwrap(Unwrap(call).res)

\* mutant: whatever the transport yields is decoded, its error included
Returns_decodesError(result) ==
    /\ ret' = Some([op |-> Unwrap(call).op, res |-> Response, result |-> result])
    /\ call' = None
    /\ UNCHANGED <<net, keyVars, dlVars, dser>>

\* send().await? hands a transport error on; otherwise the value is decoded
Returns(result) ==
    /\ ret' = Some([op |-> Unwrap(call).op, res |-> Response,
                    result |-> IF Response.ok THEN result
                               ELSE ResultTransport(Response.val.s)])
    /\ call' = None
    /\ UNCHANGED <<net, keyVars, dlVars, dser>>

\* B2Result::Ok(r) => Ok(r.create_authorization(client))
AuthorizeAccountReturns ==
    /\ Resolved({"authorize_account"})
    /\ LET r == Decoded(ProtoAuthorization, Response.val)
           result == IF r.kind = "Ok"
                     THEN ResultOk(create_authorization(Unwrap(r.val),
                                                        Unwrap(call).client))
                     ELSE r
       IN  /\ Returns(result)
           /\ auth' = IF Response.ok /\ result.kind = "Ok" THEN result.val ELSE auth

\* B2Result::Ok(key) => Ok(key.create_public_key())
CreateKeyReturns ==
    /\ Resolved({"create_key"})
    /\ LET key == Decoded(NewlyCreatedKey, Response.val)
       IN  Returns(IF key.kind = "Ok"
                   THEN ResultOk(create_public_key(Unwrap(key.val)))
                   ELSE key)
    /\ UNCHANGED auth

DeleteKeyByIdReturns ==
    /\ Resolved({"delete_key", "delete_key_by_id"})
    /\ Returns(Decoded(Key, Response.val))
    /\ UNCHANGED auth

\* mutant: the session's token replaced by the download token just obtained
GetDownloadAuthorizationReturns_keepsToken ==
    /\ Resolved({"get_download_authorization"})
    /\ LET r == Decoded(DownloadAuthorization, Response.val)
       IN  /\ Returns(r)
           /\ auth' = IF Response.ok /\ r.kind = "Ok"
                      THEN Some([Unwrap(auth) EXCEPT
                                   !.authorization_token =
                                       Unwrap(r.val).authorization_token])
                      ELSE auth

GetDownloadAuthorizationReturns ==
    /\ Resolved({"get_download_authorization"})
    /\ Returns(Decoded(DownloadAuthorization, Response.val))
    /\ UNCHANGED auth

OpNext ==
    \/ AuthorizeAccount
    \/ CreateKey
    \/ DeleteKey
    \/ DeleteKeyById
    \/ GetDownloadAuthorization
    \/ TransportResolves
    \/ AuthorizeAccountReturns
    \/ CreateKeyReturns
    \/ DeleteKeyByIdReturns
    \/ GetDownloadAuthorizationReturns

\* --------------------------------------------------------- specifications
DlInit == db = None /\ dcall = NoCall

NameInit ==
    /\ kb = None
    /\ \E name \in Names : kcall = [NoCall EXCEPT !.op = "name", !.arg = Some(name)]

Init == KeyInit /\ DlInit /\ DserInit /\ OpInit
InitDur == KeyInit /\ DlInit /\ DserStart /\ OpInit
InitName == NameInit /\ DlInit /\ DserInit /\ OpInit

\* the key-creation builder
Spec == Init /\ [][KeyNext]_vars

\* the download-authorization builder
SpecDl == Init /\ [][DlNext]_vars

\* a Duration serialized and deserialized again
SpecDur == InitDur /\ [][DserNext]_vars

\* the account operations
SpecOps == Init /\ [][OpNext]_vars

\* the account operations, each resumed once its exchange has resolved (the
\* caller awaits it); the transport is under no obligation to resolve
SpecOpsFair ==
    /\ SpecOps
    /\ WF_vars(AuthorizeAccountReturns)
    /\ WF_vars(CreateKeyReturns)
    /\ WF_vars(DeleteKeyByIdReturns)
    /\ WF_vars(GetDownloadAuthorizationReturns)

\* CreateKeyRequestBuilder::new over every name
SpecName == InitName /\ [][NewNamed]_vars

\* one component at a time: a builder chain, or the operations, runs while the
\* other two are still in their initial state
AloneNext ==
    \/ DlInit /\ OpInit /\ KeyNext
    \/ KeyInit /\ OpInit /\ DlNext
    \/ KeyInit /\ DlInit /\ OpNext

\* the builders and the operations, each on its own
SpecAlone == Init /\ [][AloneNext]_vars

\* ======================================================================
\* Claims
\* ======================================================================
Min(S) == CHOOSE x \in S : \A y \in S : x <= y

KeyManagement == {"ListKeys", "WriteKeys", "DeleteKeys"}
BucketManagement == {"WriteBuckets", "DeleteBuckets"}

BuildCalled == kcall.op = "build"
BuildSelf == Unwrap(kcall.self)
BuildCaps == Unwrap(BuildSelf.capabilities)
BuildWithBucket ==
    BuildCalled /\ IsSome(BuildSelf.bucket_id) /\ IsSome(BuildSelf.capabilities)

C2_AccountLevelRejected ==
    (BuildWithBucket
       /\ \E i \in 1..Len(BuildCaps) :
            BuildCaps[i] \in KeyManagement \cup BucketManagement
                             \cup {"ListAllBucketNames"})
    => ~kcall.res.ok /\ kcall.res.val = None

\* C2 amended: with bucket_id set, a list holding ListKeys, WriteKeys,
\* DeleteKeys, WriteBuckets or DeleteBuckets never builds, while
\* ListAllBucketNames is let through: a list of ListAllBucketNames alone builds.
C2_Amended ==
    /\ (BuildWithBucket
          /\ \E i \in 1..Len(BuildCaps) :
               BuildCaps[i] \in KeyManagement \cup BucketManagement)
       => ~kcall.res.ok /\ kcall.res.val = None
    /\ (BuildWithBucket /\ BuildCaps = <<"ListAllBucketNames">>) => kcall.res.ok

\* C2 witness: build() has rejected a bucket-limited list whose only
\* account-level capability is DeleteBuckets, in second place.
C2_Witness ==
    /\ BuildWithBucket
    /\ Len(BuildCaps) = 2
    /\ BuildCaps[1] = "ReadFiles"
    /\ BuildCaps[2] = "DeleteBuckets"
    /\ ~kcall.res.ok

\* C3: build() on a builder with name_prefix set and bucket_id unset returns a
\* validation error and no request, whatever the other fields hold.
C3_PrefixNeedsBucket ==
    (BuildCalled /\ IsSome(BuildSelf.name_prefix) /\ IsNone(BuildSelf.bucket_id))
    => ~kcall.res.ok /\ kcall.res.val = None /\ kcall.res.msg # ""

\* C3 witness: build() has run on a builder with capabilities, a duration and
\* a name prefix but no bucket.
C3_Witness ==
    /\ BuildCalled
    /\ IsSome(BuildSelf.name_prefix)
    /\ IsNone(BuildSelf.bucket_id)
    /\ IsSome(BuildSelf.capabilities)
    /\ IsSome(BuildSelf.valid_duration)
    /\ kcall.res.msg = "bucket_id must be set when name_prefix is given"

\* C4 as stated: new(name) succeeds exactly when the name has at most 100
\* characters, each alphanumeric or a hyphen.
C4_NameRule ==
    kcall.op = "new" =>
        LET name == Unwrap(kcall.arg)
        IN  kcall.res.ok <=>
                /\ CharCount(name) <= 100
                /\ \A ch \in CharsOf(name) : is_alphanumeric(ch) \/ ch = "-"

\* 1 second <= d < 1000 days, on the stored pair
C5_InRange(d) == d.secs >= 1 /\ d.secs < 1000 * 86400

C6_DocumentedRange ==
    kcall.op = "expires_after" =>
        LET d == Unwrap(kcall.arg)
        IN  (/\ d.secs > 0 \/ (d.secs = 0 /\ d.nanos > 0)
             /\ d.secs < 1000 * 86400 \/ (d.secs = 1000 * 86400 /\ d.nanos = 0))
            => kcall.res.ok

DlBuildCalled == dcall.op = "build"
DlBuildSelf == Unwrap(dcall.self)
DlOverrides(b) ==
    <<b.b2_content_disposition, b.b2_content_language, b.b2_expires,
      b.b2_cache_control, b.b2_content_encoding, b.b2_content_type>>

\* C7: with_duration(d) returns the builder, holding d, exactly when
\* 1 second <= d <= 604,800 seconds; otherwise it returns a validation error
\* and no builder.
C7_DurationBound ==
    dcall.op = "with_duration" =>
        LET d == Unwrap(dcall.arg)
            inRange == /\ d.secs >= 1
                       /\ d.secs < 604800 \/ (d.secs = 604800 /\ d.nanos = 0)
        IN  /\ dcall.res.ok <=> inRange
            /\ dcall.res.ok => Unwrap(db).valid_duration_in_seconds = Some(d)
            /\ ~dcall.res.ok => db = None /\ dcall.res.msg # ""

\* C7 witness: with_duration has accepted exactly one week.
C7_Witness ==
    /\ dcall.op = "with_duration"
    /\ Unwrap(dcall.arg) = Dur(604800, 0)
    /\ dcall.res.ok

\* C8: build() on the download-authorization builder succeeds exactly when
\* bucket id, file-name prefix and duration are all set, whatever the six
\* overrides hold; otherwise its error is the message of the first missing
\* field in the order bucket id, prefix, duration, the three messages differing.
C8_DlBuild ==
    DlBuildCalled =>
        LET b == DlBuildSelf
            r == dcall.res
        IN  /\ r.ok <=> /\ IsSome(b.bucket_id)
                        /\ IsSome(b.file_name_prefix)
                        /\ IsSome(b.valid_duration_in_seconds)
            /\ r.ok => /\ Unwrap(r.val).bucket_id = Unwrap(b.bucket_id)
                       /\ Unwrap(r.val).file_name_prefix = Unwrap(b.file_name_prefix)
                       /\ Unwrap(r.val).valid_duration_in_seconds
                            = Unwrap(b.valid_duration_in_seconds)
                       /\ DlOverrides(Unwrap(r.val)) = DlOverrides(b)
            /\ ~r.ok =>
                 /\ r.val = None
                 /\ r.msg = IF IsNone(b.bucket_id)
                            THEN "A bucket ID must be provided"
                            ELSE IF IsNone(b.file_name_prefix)
                            THEN "A filename prefix must be provided"
                            ELSE "The duration of the authorization token must be set"

\* C8 witness: build() has run on a builder with an override and a duration
\* set but neither bucket id nor prefix, and has reported the bucket id.
C8_Witness ==
    /\ DlBuildCalled
    /\ IsNone(DlBuildSelf.bucket_id)
    /\ IsNone(DlBuildSelf.file_name_prefix)
    /\ IsSome(DlBuildSelf.valid_duration_in_seconds)
    /\ IsSome(DlBuildSelf.b2_cache_control)
    /\ dcall.res.msg = "A bucket ID must be provided"

\* C9 as stated: a Duration that is a whole number of milliseconds, once
\* serialized to its wire integer and deserialized again, comes back equal.
C9_RoundTrip ==
    (IsSome(dser) /\ Unwrap(dser).pc = "done"
       /\ Unwrap(dser).dur.nanos % 1000000 = 0)
    => /\ Unwrap(Unwrap(dser).back).ok
       /\ Unwrap(Unwrap(dser).back).val = Some(Unwrap(dser).dur)

OpReturned == IsSome(ret) /\ Unwrap(ret).res.ok
Payload == Unwrap(ret).res.val
Outcome == Unwrap(ret).result
OpReturnedShape == SuccessShape(ShapeOp(Unwrap(ret).op))

\* C10: an operation that got a JSON response returns exactly one of three
\* outcomes: the typed success value when the payload fits the operation's
\* success shape; else a service error (Error::B2) carrying the payload's code
\* when the payload fits {code, status, message}; else a decode error, which
\* is not a service error.
C10_Envelope ==
    OpReturned =>
        IF Fits(OpReturnedShape, Payload)
        THEN /\ Outcome.kind = "Ok"
             /\ IsSome(Outcome.val)
        ELSE IF Fits(B2Error, Payload)
        THEN /\ Outcome.kind = "Error::B2"
             /\ Unwrap(Outcome.val).code = Element(Payload, B2Error, 1).s
        ELSE /\ Outcome.kind = "decode"
             /\ Outcome.val = None

\* C10 witness: create_key has returned its success value for an object that
\* fits the success shape and the error shape at once.
C10_Witness ==
    /\ OpReturned
    /\ Unwrap(ret).op = "create_key"
    /\ Payload.t = "object"
    /\ Fits(NewlyCreatedKey, Payload)
    /\ Fits(B2Error, Payload)
    /\ Outcome.kind = "Ok"

\* C11: with_capabilities on an empty list fails in the setter with "Key must
\* have at least one capability." and returns no builder; a builder that never
\* got a capability list is turned down by no setter on that account
\* (limit_to_bucket and with_name_prefix always return it, expires_after
\* whenever the duration is in range) and only by build(), with "A list of
\* capabilities for the key is required."; so no built request has an empty
\* capability list.
C11_AbsentOrEmpty ==
    /\ kcall.op = "with_capabilities" =>
         IF Unwrap(kcall.arg) = <<>>
         THEN /\ ~kcall.res.ok
              /\ kcall.res.msg = "Key must have at least one capability."
              /\ kb = None
         ELSE kcall.res.ok /\ Unwrap(kb).capabilities = kcall.arg
    /\ kcall.op \in {"limit_to_bucket", "with_name_prefix"} => kcall.res.ok
    /\ kcall.op = "expires_after" =>
         (kcall.res.ok <=> C5_InRange(Unwrap(kcall.arg)))
    /\ (BuildCalled /\ IsNone(BuildSelf.capabilities)) =>
         /\ ~kcall.res.ok
         /\ kcall.res.val = None
         /\ kcall.res.msg = "A list of capabilities for the key is required."
    /\ (BuildCalled /\ kcall.res.ok) => Unwrap(kcall.res.val).capabilities # <<>>
    /\ (IsSome(kb) /\ IsSome(Unwrap(kb).capabilities))
         => Unwrap(Unwrap(kb).capabilities) # <<>>

\* C11 witness: build() has turned down, for its missing capability list, a
\* builder that the bucket, prefix and duration setters had all accepted.
C11_Witness ==
    /\ BuildCalled
    /\ IsNone(BuildSelf.capabilities)
    /\ IsSome(BuildSelf.bucket_id)
    /\ IsSome(BuildSelf.name_prefix)
    /\ IsSome(BuildSelf.valid_duration)
    /\ kcall.res.msg = "A list of capabilities for the key is required."

Pending(op) == IsSome(call) /\ Unwrap(call).op = op
Session == Unwrap(auth)
Outbound == net[1]

\* C12: a request that build() yields carries no account id, and the body of
\* the request that create_key sends carries the account id of the session it
\* was called with, its Authorization header that session's token.
C12_AccountIdInjected ==
    /\ \A r \in KeyRequests : r.account_id = None
    /\ Pending("create_key") =>
         /\ Len(net) = 1
         /\ Outbound.method = "POST"
         /\ IsSome(Outbound.body)
         /\ Unwrap(Outbound.body).o.accountId = JStr(Session.account_id)
         /\ Outbound.headers = <<<<"Authorization", Session.authorization_token>>>>

\* C12 witness: create_key is awaiting the answer to a bucket-limited request
\* sent on the session of the second account.
C12_Witness ==
    /\ Pending("create_key")
    /\ Session.account_id = "account-2"
    /\ Unwrap(Outbound.body).o.accountId = JStr("account-2")
    /\ Unwrap(Outbound.body).o.bucketId = JStr("bucket-1")

KeyFields == { Key[i].rust : i \in 1..Len(Key) }

\* C13: a successful create_key returns the pair (secret, Key): the secret is
\* the response's applicationKey, the Key holds the response's other fields
\* unchanged and has no field for the secret, and neither the session nor the
\* finished call keeps it; a successful delete_key or delete_key_by_id returns
\* a Key alone, with no secret even when the response held one.
C13_SecretSplit ==
    /\ (OpReturned /\ Unwrap(ret).op = "create_key" /\ Outcome.kind = "Ok") =>
         LET pair == Unwrap(Outcome.val)
             sent == StructOf(NewlyCreatedKey, Payload)
         IN  /\ Len(pair) = 2
             /\ pair[1] = Element(Payload, NewlyCreatedKey, 1).s
             /\ DOMAIN pair[2] = KeyFields
             /\ \A f \in KeyFields : pair[2][f] = sent[f]
             /\ "application_key" \notin DOMAIN Session
             /\ call = None
    /\ (OpReturned /\ Unwrap(ret).op \in {"delete_key", "delete_key_by_id"}
          /\ Outcome.kind = "Ok") =>
         /\ DOMAIN Unwrap(Outcome.val) = KeyFields
         /\ Unwrap(Outcome.val) = StructOf(Key, Payload)

\* C13 witness: create_key has returned the secret and the key of the second
\* response body, an object.
C13_Witness ==
    /\ OpReturned
    /\ Unwrap(ret).op = "create_key"
    /\ Outcome.kind = "Ok"
    /\ Payload.t = "object"
    /\ Unwrap(Outcome.val)[1] = "secret-2"
    /\ Unwrap(Outcome.val)[2].application_key_id = "key-id-2"
    /\ Unwrap(Outcome.val)[2].capabilities = <<"ListFiles", "ReadFiles">>

Results == {"Ok", "Error::B2", "decode", "transport"}

\* C14 as stated: every invocation of an operation issues exactly one
\* outbound request, has no result while the exchange is pending, and ends
\* with exactly one result, which is a success value, a service error, a
\* decode error or a transport error; the first three only for an exchange
\* that resolved with a response.
C14_OneExchange ==
    /\ IsSome(call) => Len(net) = 1 /\ ret = None
    /\ IsSome(ret) =>
         /\ call = None
         /\ Len(net) = 1
         /\ Unwrap(ret).result.kind \in Results
         /\ Unwrap(ret).result.kind # "transport" <=> Unwrap(ret).res.ok

\* C14 on the invocations whose request could be built: the statement holds
\* for them, and an invocation that panicked issued no request.
C14_UnlessPanicked ==
    /\ IsSome(call) => Len(net) = 1 /\ ret = None
    /\ IsSome(ret) =>
         /\ call = None
         /\ IF Unwrap(ret).result.kind = "panic"
            THEN net = <<>> /\ Unwrap(ret).op # "authorize_account"
            ELSE /\ Len(net) = 1
                 /\ Unwrap(ret).result.kind \in Results
                 /\ Unwrap(ret).result.kind # "transport" <=> Unwrap(ret).res.ok

\* the builder rules on a key-creation request
KeyRequestRules(r) ==
    /\ r.capabilities # <<>>
    /\ CharCount(r.key_name) <= 100
    /\ \A ch \in CharsOf(r.key_name) : is_alphanumeric(ch) \/ ch = "-"
    /\ IsSome(r.valid_duration_in_seconds)
         => C5_InRange(Unwrap(r.valid_duration_in_seconds))
    /\ IsSome(r.name_prefix) => IsSome(r.bucket_id)
    /\ IsSome(r.bucket_id) =>
         \A i \in 1..Len(r.capabilities) :
             r.capabilities[i] \notin KeyManagement \cup BucketManagement

\* the builder rules on a download-authorization request
DlRequestRules(r) ==
    /\ {"bucket_id", "file_name_prefix", "valid_duration_in_seconds"} \subseteq DOMAIN r
    /\ r.valid_duration_in_seconds.secs >= 1
    /\ \/ r.valid_duration_in_seconds.secs < 604800
       \/ r.valid_duration_in_seconds = Dur(604800, 0)

\* the same rules read off the JSON body of a request on the wire, whose
\* duration is the pair [whole seconds, milliseconds]
KeyBodyRules(o) ==
    /\ Len(o.capabilities.a) >= 1
    /\ CharCount(o.keyName.s) <= 100
    /\ o.validDurationInSeconds.t = "number" =>
         /\ o.validDurationInSeconds.n.hi >= 1
         /\ o.validDurationInSeconds.n.hi < 1000 * 86400
    /\ o.namePrefix.t = "string" => o.bucketId.t = "string"
    /\ o.bucketId.t = "string" =>
         \A i \in 1..Len(o.capabilities.a) :
             o.capabilities.a[i].s \notin
                 {"listKeys", "writeKeys", "deleteKeys", "writeBuckets", "deleteBuckets"}

DlBodyRules(o) ==
    /\ o.bucketId.t = "string"
    /\ o.fileNamePrefix.t = "string"
    /\ o.validDurationInSeconds.t = "number"
    /\ o.validDurationInSeconds.n.hi >= 1
    /\ \/ o.validDurationInSeconds.n.hi < 604800
       \/ o.validDurationInSeconds.n = [hi |-> 604800, lo |-> 0]

BuilderStep == <<kb, kcall, db, dcall>>' # <<kb, kcall, db, dcall>>

ProtoFields == { ProtoAuthorization[i].rust : i \in 1..Len(ProtoAuthorization) }
AuthorizeReturned == IsSome(ret) /\ Unwrap(ret).op = "authorize_account"

\* C16: authorize_account sends one GET to the b2_authorize_account endpoint
\* with the header Authorization = "Basic " + base64(key_id ":" key) and no
\* body; it returns a session exactly when the response fits the success
\* shape, the session then holding the client passed in and the decoded
\* fields; for an error envelope it returns a service error with the
\* envelope's code; and a call that returns no session leaves the caller's
\* session variable as it was.
C16_Authorize ==
    /\ [](Pending("authorize_account") =>
            /\ Len(net) = 1
            /\ Outbound.method = "GET"
            /\ Outbound.url = "https://api.backblazeb2.com/b2api/v2/b2_authorize_account"
            /\ Outbound.body = None
            /\ \E key_id \in AuthKeyIds, key \in AuthKeys :
                 Outbound.headers =
                     <<<<"Authorization",
                         <<"Basic ", [base64 |-> <<key_id, ":", key>>]>>>>>>)
    /\ [](AuthorizeReturned =>
            /\ Outcome.kind = "Ok" <=>
                 Unwrap(ret).res.ok /\ Fits(ProtoAuthorization, Payload)
            /\ Outcome.kind = "Ok" =>
                 /\ auth = Outcome.val
                 /\ Session.client \in Clients
                 /\ DOMAIN Session = ProtoFields \cup {"client"}
                 /\ \A f \in ProtoFields :
                      Session[f] = StructOf(ProtoAuthorization, Payload)[f]
            /\ (Unwrap(ret).res.ok /\ ~Fits(ProtoAuthorization, Payload)
                  /\ Fits(B2Error, Payload)) =>
                 /\ Outcome.kind = "Error::B2"
                 /\ Unwrap(Outcome.val).code = Element(Payload, B2Error, 1).s)
    /\ [][(AuthorizeReturned' /\ ret' # ret /\ Outcome'.kind # "Ok")
            => auth' = auth]_vars

\* C16 witness: the first authorize_account has returned the service error
\* bad_auth_token for an error envelope, and there is no session.
C16_Witness ==
    /\ AuthorizeReturned
    /\ Payload.t = "object"
    /\ Outcome.kind = "Error::B2"
    /\ Unwrap(Outcome.val).code = "bad_auth_token"
    /\ auth = None

OnSession == {"create_key", "delete_key", "delete_key_by_id",
              "get_download_authorization"}

\* C17: a step of create_key, delete_key, delete_key_by_id or
\* get_download_authorization, whatever its outcome, leaves every field of the
\* session as it was; the session changes only when authorize_account returns
\* a new one, which then replaces it whole.
C17_SessionFrame ==
    /\ [][(\/ IsSome(call) /\ Unwrap(call).op \in OnSession
           \/ IsSome(call') /\ Unwrap(call').op \in OnSession
           \/ ret' # ret /\ IsSome(ret') /\ Unwrap(ret').op \in OnSession)
            => auth' = auth]_vars
    /\ [][auth' # auth =>
            /\ AuthorizeReturned'
            /\ Outcome'.kind = "Ok"
            /\ auth' = Outcome'.val]_vars

\* C17 witness: get_download_authorization has returned its success value on
\* the session of the second account.
C17_Witness ==
    /\ OpReturned
    /\ Unwrap(ret).op = "get_download_authorization"
    /\ Outcome.kind = "Ok"
    /\ IsSome(auth)
    /\ Session.authorization_token = "token-2"

Awaiting == IsSome(call) /\ Unwrap(call).pc = "awaiting"
ExchangeResolved == IsSome(call) /\ Unwrap(call).pc = "resolved"

\* C18: once the transport has resolved the exchange the operation eventually
\* returns, one result; a transport error is that result as it came, nothing
\* decoded; and while the exchange is unresolved the operation does not
\* return: from there only the transport resolving it is a step.
C18_NoTimeout ==
    /\ ExchangeResolved ~> (call = None /\ IsSome(ret))
    /\ []((IsSome(ret) /\ ~Unwrap(ret).res.ok /\ Outcome.kind # "panic") =>
            /\ Outcome.kind = "transport"
            /\ Outcome.val = Some(Unwrap(ret).res.val.s))
    /\ [][Awaiting => (ret' = None /\ ExchangeResolved')]_vars

\* C18 witness: create_key has returned the transport's error.
C18_Witness ==
    /\ IsSome(ret)
    /\ Unwrap(ret).op = "create_key"
    /\ call = None
    /\ ~Unwrap(ret).res.ok
    /\ Outcome = [kind |-> "transport", val |-> Some("connection reset")]

Endpoints == {"b2_create_key", "b2_delete_key", "b2_get_download_authorization"}
EndpointOf(op) ==
    CASE op = "create_key" -> "b2_create_key"
      [] op = "get_download_authorization" -> "b2_get_download_authorization"
      [] OTHER -> "b2_delete_key"
OtherBases == {"", "https://elsewhere"}

\* C19: each URL builder returns its own base, then "/b2api/v2/", then the
\* path, whatever the other two bases hold; and the request of create_key,
\* delete_key, delete_key_by_id and get_download_authorization goes to the
\* general base of the session with the operation's endpoint.
C19_Bases ==
    /\ IsSome(auth) =>
         \A e \in Endpoints :
             /\ api_url(Session, e) = Session.api_url \o "/b2api/v2/" \o e
             /\ download_url(Session, e) = Session.download_url \o "/b2api/v2/" \o e
             /\ s3_api_url(Session, e) = Session.s3_api_url \o "/b2api/v2/" \o e
             /\ \A x \in OtherBases, y \in OtherBases :
                  /\ api_url([Session EXCEPT !.download_url = x, !.s3_api_url = y], e)
                       = api_url(Session, e)
                  /\ download_url([Session EXCEPT !.api_url = x, !.s3_api_url = y], e)
                       = download_url(Session, e)
                  /\ s3_api_url([Session EXCEPT !.api_url = x, !.download_url = y], e)
                       = s3_api_url(Session, e)
    /\ (IsSome(call) /\ Unwrap(call).op \in OnSession) =>
         /\ Len(net) = 1
         /\ Outbound.url
              = Session.api_url \o "/b2api/v2/" \o EndpointOf(Unwrap(call).op)

\* C19 witness: get_download_authorization has sent its request to the general
\* base of a session whose three bases differ.
C19_Witness ==
    /\ Pending("get_download_authorization")
    /\ Session.api_url = "https://api2"
    /\ Session.download_url = "https://f2"
    /\ Session.s3_api_url = "https://s32"
    /\ Outbound.url = "https://api2/b2api/v2/b2_get_download_authorization"

\* what build() is to return for a builder, from its five fields alone
BuildOutcome(b) ==
    IF b.capabilities = None
    THEN [ok |-> FALSE, val |-> None,
          msg |-> "A list of capabilities for the key is required."]
    ELSE LET caps == Unwrap(b.capabilities)
             bad == { i \in 1..Len(caps) :
                        caps[i] \in KeyManagement \cup BucketManagement }
         IN  IF b.bucket_id # None /\ bad # {}
             THEN [ok |-> FALSE, val |-> None,
                   msg |-> "Invalid capability when bucket_id is set: "
                           \o caps[Min(bad)]]
             ELSE IF b.bucket_id = None /\ b.name_prefix # None
             THEN [ok |-> FALSE, val |-> None,
                   msg |-> "bucket_id must be set when name_prefix is given"]
             ELSE [ok |-> TRUE, msg |-> "",
                   val |-> Some([account_id |-> None, capabilities |-> caps,
                                 key_name |-> b.name,
                                 valid_duration_in_seconds |-> b.valid_duration,
                                 bucket_id |-> b.bucket_id,
                                 name_prefix |-> b.name_prefix])]

\* the field a setter writes
SetterField ==
    [with_capabilities |-> "capabilities", expires_after |-> "valid_duration",
     limit_to_bucket |-> "bucket_id", with_name_prefix |-> "name_prefix"]

\* C20: build() returns what the builder's five fields determine, the check
\* for missing capabilities coming first; a setter that returns the builder
\* has written its argument over its own field and left the other four as they
\* were, so the last call wins and nothing set is unset; and limit_to_bucket
\* and with_capabilities (on a non-empty list) return the builder whatever
\* the other has stored.
C20_FieldsDecide ==
    /\ [](BuildCalled => kcall.res = BuildOutcome(BuildSelf))
    /\ [](kcall.op = "limit_to_bucket" => kcall.res.ok)
    /\ []((kcall.op = "with_capabilities" /\ Unwrap(kcall.arg) # <<>>) => kcall.res.ok)
    /\ [][(IsSome(kb) /\ IsSome(kb') /\ kcall'.op \in DOMAIN SetterField) =>
            \A f \in DOMAIN Unwrap(kb) :
                Unwrap(kb')[f] = IF f = SetterField[kcall'.op]
                                 THEN kcall'.arg
                                 ELSE Unwrap(kb)[f]]_vars

\* C20 witness: build() has reported the missing capability list for a
\* builder that also has a name prefix and no bucket.
C20_Witness ==
    /\ BuildCalled
    /\ IsNone(BuildSelf.capabilities)
    /\ IsSome(BuildSelf.name_prefix)
    /\ IsNone(BuildSelf.bucket_id)
    /\ kcall.res.msg = "A list of capabilities for the key is required."

====
